---- MODULE Spec2Model ----
(***************************************************************************)
(* Model of the Waterfall scrape payload (Waterfall/src/payload.ts, the    *)
(* flow kept in the block comment of lines 10-111) and of the two BraidApi *)
(* client wrappers exercised by the integration tests                      *)
(* (BraidApi/test/saveactivity.test.ts and the FindEnrichedChunks test).   *)
(*                                                                         *)
(* JavaScript runs every callback to completion on one event loop, so each *)
(* callback (interval tick, timeout callback, .then / .catch handler) is   *)
(* one atomic action.                                                      *)
(***************************************************************************)
EXTENDS Integers, Sequences, FiniteSets, TLC

VARIABLES
    \* ---- the page the payload is injected into (input of artoo.scrape)
    paragraphs,             \* result of artoo.scrape('p', 'text')
    headings,               \* headings[i] = result of artoo.scrape('h' + i, 'text')
    scrapeThrows,           \* TRUE when artoo.scrape throws inside the try block
    \* ---- payload.ts, lines 11-18
    haveSummary,
    baseSummaryText,
    haveClassification,
    baseClassificationText,
    allText,
    interval,               \* "active" | "cleared"
    \* ---- the event loop: pending timeout callback and HTTP calls
    timeout,                \* "pending" | "done" (setTimeout callback, line 38)
    summarize,              \* record of the summarize call (state, text, posts)
    classify,               \* record of the classify call (state, text, posts)
    summaryRes,             \* data of the 200 summarize response, "" before
    sent,                   \* messages passed to chrome.runtime.sendMessage, in order
    logged,                 \* number of console.error calls (exceptions consumed by a .catch)
    \* ---- BraidApi clients (ActivityRepostoryApi, QueryModelWithEnrichmentApi)
    activityStore,          \* remote activity repository: ids of the saved records
    saveCall,               \* the save() call being observed
    queryCall               \* the query() call being observed

scrapeVars == <<paragraphs, headings, scrapeThrows, haveSummary, baseSummaryText,
                haveClassification, baseClassificationText, allText, interval,
                timeout, summarize, classify, summaryRes, sent, logged>>
apiVars == <<activityStore, saveCall, queryCall>>
vars == <<scrapeVars, apiVars>>

-----------------------------------------------------------------------------
(* Bounds of the model *)

MaxTicks == 2           \* progress ticks that send messages, per run
MaxFrags == 2           \* paragraph fragments on a page
MaxIds == 2             \* distinct record ids
MaxHistory == 2         \* conversation elements in a query's history
MaxChunks == 3          \* chunks in an enriched response
MaxRelevance == 3       \* relevance scores are 1 .. MaxRelevance

(* payload.ts line 11: let NN = 1024*100.  The cap is scaled down so that   *)
(* strings longer than the cap can be enumerated; the code only compares    *)
(* allText.length with NN and cuts at NN.                                   *)
NN == 8

SummaryFallback == "Sorry, could not fetch a summary from the Waterfall server."
ClassificationFallback == "Sorry, could not fetch a classification from the Waterfall server."

\* Texts found on the page
ParagraphTexts == {"ab", "cdefgh"}
HeadingTexts == {"T"}

\* Response bodies of the remote summarize / classify service
SummaryData == {"sum1", "sum2"}
ClassificationData == {"cls1"}
HttpStatus == {200, 500}

RECURSIVE SeqsUpTo(_, _)
SeqsUpTo(S, n) ==
    IF n = 0 THEN {<<>>}
    ELSE LET shorter == SeqsUpTo(S, n - 1)
         IN  shorter \cup {Append(s, x) : s \in {t \in shorter : Len(t) = n - 1}, x \in S}

-----------------------------------------------------------------------------
(* Pure helpers of the timeout callback *)

\* Array.prototype.join(' \n') (line 49)
RECURSIVE join(_, _)
join(arr, sep) ==
    IF Len(arr) = 0 THEN ""
    ELSE IF Len(arr) = 1 THEN arr[1]
    ELSE arr[1] \o sep \o join(Tail(arr), sep)

\* String.prototype.substring(0, n) for 0 <= n
substring(s, n) == IF n >= Len(s) THEN s ELSE SubSeq(s, 1, n)

\* lines 44-46: for (var i = 0; i < 6; i++) scraped = scraped = artoo.scrape('h' + i, 'text')
RECURSIVE headingLoop(_, _, _)
headingLoop(i, scraped, h) ==
    IF i < 6 THEN headingLoop(i + 1, h[i], h) ELSE scraped

\* lines 42-47: paragraphs first, headings when there are none
scrape(p, h) ==
    IF Len(p) = 0 THEN headingLoop(0, p, h) ELSE p

truncateOffByOne(text) == IF Len(text) > NN THEN substring(text, NN + 1) ELSE text

\* lines 51-52
truncate(text) == IF Len(text) > NN THEN substring(text, NN) ELSE text

\* lines 40-56: the try block and its catch
scrapeAllText(p, h, throws) ==
    IF throws THEN "" ELSE truncate(join(scrape(p, h), " \n"))

Message(type, text) == [type |-> type, text |-> text]

-----------------------------------------------------------------------------
(* Initial state: lines 11-18 have run, the interval and the timeout are   *)
(* armed, nothing has been posted.                                          *)

ScrapeInit ==
    /\ paragraphs \in SeqsUpTo(ParagraphTexts, MaxFrags)
    /\ headings \in [0..6 -> SeqsUpTo(HeadingTexts, 1)]
    /\ scrapeThrows \in BOOLEAN
    /\ haveSummary = FALSE
    /\ baseSummaryText = "Summarising ..."
    /\ haveClassification = FALSE
    /\ baseClassificationText = "Classifying ..."
    /\ allText = ""
    /\ interval = "active"
    /\ timeout = "pending"
    /\ summarize = [state |-> "idle", text |-> "", posts |-> 0]
    /\ classify = [state |-> "idle", text |-> "", posts |-> 0]
    /\ summaryRes = ""
    /\ sent = <<>>
    /\ logged = 0

ApiIdle ==
    /\ activityStore = {}
    /\ saveCall = [state |-> "none"]
    /\ queryCall = [state |-> "none"]

\* The model stops sending progress once a progress text carries MaxTicks more dots
belowTickBound ==
    /\ Len(baseSummaryText) < Len("Summarising ...") + MaxTicks
    /\ Len(baseClassificationText) < Len("Classifying ...") + MaxTicks

summaryProgressUnguarded == <<Message("Summary", baseSummaryText')>>

\* lines 22-25: progress is sent only while the summary is outstanding
summaryProgress ==
    IF ~haveSummary THEN <<Message("Summary", baseSummaryText')>> ELSE <<>>

\* lines 27-30
classificationProgress ==
    IF ~haveClassification
    THEN <<Message("Classification", baseClassificationText')>> ELSE <<>>

clearIntervalMissing == UNCHANGED interval

\* line 34
clearInterval == interval' = "cleared"

(* setInterval callback, lines 18-36 *)
Tick ==
    /\ interval = "active"
    /\ IF ~haveSummary \/ ~haveClassification
       THEN /\ belowTickBound
            /\ baseSummaryText' =
                   IF ~haveSummary THEN baseSummaryText \o "." ELSE baseSummaryText
            /\ baseClassificationText' =
                   IF ~haveClassification THEN baseClassificationText \o "."
                   ELSE baseClassificationText
            /\ sent' = sent \o summaryProgress \o classificationProgress
            /\ UNCHANGED interval
       ELSE /\ clearInterval
            /\ UNCHANGED <<baseSummaryText, baseClassificationText, sent>>
    /\ UNCHANGED <<paragraphs, headings, scrapeThrows, haveSummary, haveClassification,
                   allText, timeout, summarize, classify, summaryRes, logged>>
    /\ UNCHANGED apiVars

(* setTimeout callback, lines 38-110: scrape, truncate, post to summarize *)
ScrapeAndPost ==
    /\ timeout = "pending"
    /\ timeout' = "done"
    /\ allText' = scrapeAllText(paragraphs, headings, scrapeThrows)
    /\ summarize' = [state |-> "inflight", text |-> allText', posts |-> summarize.posts + 1]
    /\ UNCHANGED <<paragraphs, headings, scrapeThrows, haveSummary, baseSummaryText,
                   haveClassification, baseClassificationText, interval, classify,
                   summaryRes, sent, logged>>
    /\ UNCHANGED apiVars

classifyPostAllText(data) ==
    [state |-> "inflight", text |-> allText, posts |-> classify.posts + 1]

\* lines 73-79: axios.post(classifyQuery, {data: {text: summaryRes.data}, ...})
classifyPost(data) ==
    [state |-> "inflight", text |-> data, posts |-> classify.posts + 1]

\* lines 98-99
failedMessages ==
    <<Message("Summary", SummaryFallback),
      Message("Classification", ClassificationFallback)>>

rejectedMessagesSummaryOnly == <<Message("Summary", SummaryFallback)>>

\* lines 106-107
rejectedMessages ==
    <<Message("Summary", SummaryFallback),
      Message("Classification", ClassificationFallback)>>

(* .then handler of the summarize call, lines 68-101 *)
SummarizeThen(status, data) ==
    /\ summarize.state = "inflight"
    /\ haveSummary' = TRUE
    /\ IF status = 200
       THEN /\ summarize' = [summarize EXCEPT !.state = "ok"]
            /\ summaryRes' = data
            /\ sent' = Append(sent, Message("Summary", data))
            /\ classify' = classifyPost(data)
            /\ UNCHANGED haveClassification
       ELSE /\ summarize' = [summarize EXCEPT !.state = "failed"]
            /\ haveClassification' = TRUE
            /\ sent' = sent \o failedMessages
            /\ UNCHANGED <<summaryRes, classify>>
    /\ UNCHANGED <<paragraphs, headings, scrapeThrows, baseSummaryText,
                   baseClassificationText, allText, interval, timeout, logged>>
    /\ UNCHANGED apiVars

(* .catch handler of the summarize call, lines 102-108 *)
SummarizeCatch ==
    /\ summarize.state = "inflight"
    /\ summarize' = [summarize EXCEPT !.state = "rejected"]
    /\ haveSummary' = TRUE
    /\ haveClassification' = TRUE
    /\ logged' = logged + 1
    /\ sent' = sent \o rejectedMessages
    /\ UNCHANGED <<paragraphs, headings, scrapeThrows, baseSummaryText,
                   baseClassificationText, allText, interval, timeout, classify,
                   summaryRes>>
    /\ UNCHANGED apiVars

(* .then handler of the classify call, lines 80-88 *)
ClassifyThen(status, data) ==
    /\ classify.state = "inflight"
    /\ haveClassification' = TRUE
    /\ IF status = 200
       THEN /\ classify' = [classify EXCEPT !.state = "ok"]
            /\ sent' = Append(sent, Message("Classification", data))
       ELSE /\ classify' = [classify EXCEPT !.state = "failed"]
            /\ sent' = Append(sent, Message("Classification", ClassificationFallback))
    /\ UNCHANGED <<paragraphs, headings, scrapeThrows, haveSummary, baseSummaryText,
                   baseClassificationText, allText, interval, timeout, summarize,
                   summaryRes, logged>>
    /\ UNCHANGED apiVars

(* .catch handler of the classify call, lines 89-93 *)
ClassifyCatch ==
    /\ classify.state = "inflight"
    /\ classify' = [classify EXCEPT !.state = "rejected"]
    /\ haveClassification' = TRUE
    /\ logged' = logged + 1
    /\ sent' = Append(sent, Message("Classification", ClassificationFallback))
    /\ UNCHANGED <<paragraphs, headings, scrapeThrows, haveSummary, baseSummaryText,
                   baseClassificationText, allText, interval, timeout, summarize,
                   summaryRes>>
    /\ UNCHANGED apiVars

SummarizeResponds == \E status \in HttpStatus, data \in SummaryData : SummarizeThen(status, data)
ClassifyResponds == \E status \in HttpStatus, data \in ClassificationData : ClassifyThen(status, data)

Init == ScrapeInit /\ ApiIdle

Next ==
    \/ Tick
    \/ ScrapeAndPost
    \/ SummarizeResponds
    \/ SummarizeCatch
    \/ ClassifyResponds
    \/ ClassifyCatch

Spec == Init /\ [][Next]_vars

(* Timers fire and HTTP calls settle: the event loop runs every callback that *)
(* is due, and each axios promise is fulfilled or rejected.                   *)
FairSpec ==
    /\ Spec
    /\ WF_vars(Tick)
    /\ WF_vars(ScrapeAndPost)
    /\ WF_vars(SummarizeResponds \/ SummarizeCatch)
    /\ WF_vars(ClassifyResponds \/ ClassifyCatch)

-----------------------------------------------------------------------------
(* Properties of the scrape flow *)

Range(q) == {q[i] : i \in DOMAIN q}

FinalTexts == SummaryData \cup ClassificationData \cup {SummaryFallback, ClassificationFallback}
IsFinal(m) == m.text \in FinalTexts
IsProgress(m) == ~IsFinal(m)
MessageTypes == {"Summary", "Classification"}

\* C5: a failed summarize call (rejected or not 200) relays the summary fallback
\* and the classification fallback, a failed classify call relays the
\* classification fallback, and no exception escapes to the host: each
\* rejection is consumed (logged) by its .catch handler and a throwing scrape
\* still leads to the summarize post.
C5_FallbacksRelayed ==
    /\ summarize.state \in {"failed", "rejected"} =>
           /\ Message("Summary", SummaryFallback) \in Range(sent)
           /\ Message("Classification", ClassificationFallback) \in Range(sent)
    /\ classify.state \in {"failed", "rejected"} =>
           Message("Classification", ClassificationFallback) \in Range(sent)
    /\ logged = (IF summarize.state = "rejected" THEN 1 ELSE 0)
                 + (IF classify.state = "rejected" THEN 1 ELSE 0)
    /\ (timeout = "done" /\ scrapeThrows) => (summarize.posts = 1 /\ allText = "")

C5_Witness ==
    /\ summarize.state = "rejected"
    /\ Message("Classification", ClassificationFallback) \in Range(sent)
    /\ logged = 1

\* C6: with timers firing and calls settling, once both legs are terminal the
\* interval is eventually cleared and nothing more is sent, and every run in
\* which the summarize call has completed ends with the interval cleared.
C6_TimerCancelled ==
    /\ (haveSummary /\ haveClassification) ~> (interval = "cleared")
    /\ (summarize.state \in {"ok", "failed", "rejected"}) ~> (interval = "cleared")
    /\ [][(haveSummary /\ haveClassification) => sent' = sent]_vars
    /\ [][interval = "cleared" => interval' = "cleared" /\ sent' = sent]_vars

C6_Witness ==
    /\ summarize.state = "ok"
    /\ classify.state \in {"ok", "failed", "rejected"}
    /\ interval = "cleared"
    /\ \E i \in DOMAIN sent : IsProgress(sent[i])

\* C7: classify is posted only after summarize answered 200, with the summary
\* summarize returned; the two calls are never in flight together and each is
\* posted at most once.
C7_Sequential ==
    /\ classify.state # "idle" =>
           /\ summarize.state = "ok"
           /\ classify.text = summaryRes
           /\ Message("Summary", classify.text) \in Range(sent)
    /\ ~(summarize.state = "inflight" /\ classify.state = "inflight")
    /\ summarize.posts <= 1
    /\ classify.posts <= 1

C7_Witness ==
    /\ classify.state = "inflight"
    /\ classify.text = "sum2"
    /\ allText # ""

\* C8: the text posted to summarize is never longer than NN; a concatenation of
\* at most NN characters is posted unchanged; when scraping throws the posted
\* text is empty.
C8_Truncated ==
    summarize.state # "idle" =>
        /\ Len(summarize.text) <= NN
        /\ (~scrapeThrows /\ Len(join(scrape(paragraphs, headings), " \n")) <= NN) =>
               summarize.text = join(scrape(paragraphs, headings), " \n")
        /\ scrapeThrows => summarize.text = ""

C8_Witness ==
    /\ summarize.state = "inflight"
    /\ ~scrapeThrows
    /\ Len(join(paragraphs, " \n")) > NN
    /\ Len(summarize.text) = NN

\* The fragments of heading levels 0 through 6, in level order
allHeadings ==
    headings[0] \o headings[1] \o headings[2] \o headings[3]
        \o headings[4] \o headings[5] \o headings[6]

\* C9: headings are used only when there are no paragraph fragments, and then
\* the text is built from the fragments of heading levels 0 through 6 joined
\* with newline separators; with at least one paragraph fragment the text is
\* built from the paragraphs alone.
C9_HeadingFallback ==
    (timeout = "done" /\ ~scrapeThrows) =>
        IF Len(paragraphs) = 0
        THEN allText = truncate(join(allHeadings, " \n"))
        ELSE allText = truncate(join(paragraphs, " \n"))

\* C10: per message type at most one final message (result or fallback) is
\* sent, and no progress message of that type follows it.
C10_FinalIsLast ==
    \A t \in MessageTypes :
        /\ Cardinality({i \in DOMAIN sent : sent[i].type = t /\ IsFinal(sent[i])}) <= 1
        /\ \A i, j \in DOMAIN sent :
               (i < j /\ sent[i].type = t /\ IsFinal(sent[i]) /\ sent[j].type = t)
                   => ~IsProgress(sent[j])

C10_Witness ==
    /\ Len(sent) >= 4
    /\ IsProgress(sent[1])
    /\ sent[3] = Message("Summary", "sum1")
    /\ sent[4].type = "Classification"
    /\ IsProgress(sent[4])

-----------------------------------------------------------------------------
(* The BraidApi clients.  BraidCommon/src/ActivityRepositoryApi and          *)
(* QueryModelWithEnrichementApi are imported by the tests but are not part   *)
(* of the sources at hand; their behaviour is taken from the specification   *)
(* (sections 4.2, 4.3, 6 and 7) and from what the tests call and expect.     *)

Environments == {"kLocal", "kProduction"}
ValidSessionKey == "SessionKey"               \* process.env.SessionKey
SessionKeys == {ValidSessionKey, "thiswillfail"}
Records == [id : 1..MaxIds, test : {"Some test data"}]

\* Section 6: the environment selects the base URL the client posts to
baseUrl(env) == IF env = "kLocal" THEN "local base URL" ELSE "production base URL"

Roles == {"user", "assistant"}
ConversationElements == [role : Roles, content : {"text"}]
Histories == SeqsUpTo(ConversationElements, MaxHistory)
Chunks == [relevance : 1..MaxRelevance]
Answers == {"An answer."}

descending(chunks) ==
    \A i \in 1..(Len(chunks) - 1) : chunks[i].relevance >= chunks[i + 1].relevance

EnrichedResponsesMaybeEmpty ==
    [answer : Answers \cup {""},
     chunks : {c \in SeqsUpTo(Chunks, MaxChunks) :
                  /\ descending(c)
                  /\ Len(c) > 1 => c[1].relevance > c[2].relevance}]

EnrichedResponsesWithTies ==
    [answer : Answers,
     chunks : {c \in SeqsUpTo(Chunks, MaxChunks) : Len(c) > 0 /\ descending(c)}]

\* Sections 3 and 8: what the query service answers with
EnrichedResponses ==
    [answer : Answers,
     chunks : {c \in SeqsUpTo(Chunks, MaxChunks) :
                  /\ Len(c) > 0
                  /\ descending(c)
                  /\ Len(c) > 1 => c[1].relevance > c[2].relevance}]

authenticatedAlways(key) == TRUE
authenticatedNever(key) == FALSE

\* Section 4.3: the service accepts the session key or not
authenticated(key) == key = ValidSessionKey

saveSettled == saveCall.state \in {"resolved", "rejected"}

(* new ActivityRepostoryApi(env, key).save(record) *)
Save(env, key, record) ==
    /\ saveCall.state # "pending"
    /\ saveCall' = [state |-> "pending", url |-> baseUrl(env), env |-> env,
                    key |-> key, record |-> record]
    /\ UNCHANGED <<activityStore, queryCall>>
    /\ UNCHANGED scrapeVars

(* The repository service answers the save request *)
SaveAnswered ==
    /\ saveCall.state = "pending"
    /\ IF authenticated(saveCall.key)
       THEN /\ activityStore' = activityStore \cup {saveCall.record.id}
            /\ saveCall' = [saveCall EXCEPT !.state = "resolved"] @@ [value |-> TRUE]
       ELSE /\ UNCHANGED activityStore
            /\ saveCall' = [saveCall EXCEPT !.state = "resolved"] @@ [value |-> FALSE]
    /\ UNCHANGED queryCall
    /\ UNCHANGED scrapeVars

(* The save request fails in transport: the promise is rejected *)
SaveTransportFails ==
    /\ saveCall.state = "pending"
    /\ saveCall' = [saveCall EXCEPT !.state = "rejected"]
    /\ UNCHANGED <<activityStore, queryCall>>
    /\ UNCHANGED scrapeVars

(* new QueryModelWithEnrichmentApi(getEnvironment(env), SessionKey).query(spec) *)
Query(env, history) ==
    /\ queryCall.state # "pending"
    /\ queryCall' = [state |-> "pending", url |-> baseUrl(env), history |-> history]
    /\ UNCHANGED <<activityStore, saveCall>>
    /\ UNCHANGED scrapeVars

(* The query service answers with status 200 *)
QueryAnswered ==
    /\ queryCall.state = "pending"
    /\ \E response \in EnrichedResponses :
           queryCall' = [queryCall EXCEPT !.state = "resolved"] @@ [response |-> response]
    /\ UNCHANGED <<activityStore, saveCall>>
    /\ UNCHANGED scrapeVars

(* Network failure or a non-success status: the promise is rejected *)
QueryFails ==
    /\ queryCall.state = "pending"
    /\ queryCall' = [queryCall EXCEPT !.state = "rejected"]
    /\ UNCHANGED <<activityStore, saveCall>>
    /\ UNCHANGED scrapeVars

SaveCalled == \E env \in Environments, key \in SessionKeys, record \in Records : Save(env, key, record)
QueryCalled == \E env \in Environments, history \in Histories : Query(env, history)

\* The client flows run on their own; the payload is not injected
ApiInit ==
    /\ ApiIdle
    /\ ScrapeInit
    /\ paragraphs = <<>>
    /\ headings = [i \in 0..6 |-> <<>>]
    /\ scrapeThrows = FALSE

ApiNext ==
    \/ SaveCalled
    \/ SaveAnswered
    \/ SaveTransportFails
    \/ QueryCalled
    \/ QueryAnswered
    \/ QueryFails

ApiSpec == ApiInit /\ [][ApiNext]_vars

-----------------------------------------------------------------------------
(* Properties of the client flows *)

====
